---- MODULE Spec2Model ----
(***************************************************************************)
(* A model of the two batch image scripts of src/index.js:                 *)
(*   variant 1 (lines 1-320):   squoosh only, one ImagePool per file;      *)
(*   variant 2 (lines 321-622): sharp crop + squoosh, one pool per batch.  *)
(* The file system, sharp and the squoosh codec are the environment: each  *)
(* call into them either returns a value drawn from a small set or throws. *)
(* Variables whose comment says "history" record what has happened; the    *)
(* program never reads them.                                               *)
(***************************************************************************)
EXTENDS Integers, Sequences, FiniteSets, TLC

VARIABLES
    variant,         \* 1: lines 1-320, 2: lines 321-622
    CONFIG,          \* the enabled flags of the configuration object
    inputDirExists,  \* fs.existsSync(CONFIG.inputDir)
    pc,              \* position in main
    exitCode,        \* {} while running, {0} or {1} once the process has ended
    imageFiles,      \* the list getImageFiles returned
    stats,           \* the stats object of compressImages
    i,               \* the loop index of compressImages
    step,            \* position in compressImages
    cur,             \* the locals of the current loop iteration
    pools,           \* one entry per ImagePool created: how often it was closed
    fs,              \* history: what was done to the file system
    threwFiles,      \* history: the files (1-based) one of whose steps threw
    threwEarly,      \* history: those that threw before ensureDir and the write
    okIn,            \* history: input bytes of the files whose pipeline completed
    okOut,           \* history: output bytes of the files whose pipeline completed
    counted,         \* history: per file, how often success++ and failed++ ran
    divided,         \* history: which divisions by zero were evaluated
    usedClosedPool,  \* history: an ingest or encode on a pool already closed
    escaped,         \* history: the error that left main, "none" if none did
    inputPathArg,    \* the inputPath given to getOutputPath
    customFormatArg, \* the customFormat given to getOutputPath, <<>> for null
    outputPath       \* what getOutputPath returned, <<>> before the call

mainVars == <<variant, CONFIG, inputDirExists, pc, exitCode, imageFiles, stats,
              i, step, cur, pools, fs, threwFiles, threwEarly, okIn, okOut,
              counted, divided, usedClosedPool, escaped>>
pathVars == <<inputPathArg, customFormatArg, outputPath>>
vars == <<mainVars, pathVars>>

(* Bounds of the model. *)
MaxFiles == 2
MaxSize == 1
MaxDelta == 1
MaxDepth == 2
MaxNameLen == 3

(* CONFIG.cropOptions.width (variant 1) and CONFIG.crop.width (variant 2). *)
cropOptionsWidth == 338
cropWidthSharp == 1305
(* CONFIG.cropOptions.keepHeight and CONFIG.preprocessOptions.resize.height. *)
keepHeight == TRUE
resizeWidth == 338
resizeHeight == 280

cropTarget(v) == IF v = 1 THEN cropOptionsWidth ELSE cropWidthSharp

(* The configurations: each enabled flag either way. *)
Configs == [cropEnabled : BOOLEAN, resizeEnabled : BOOLEAN, quantEnabled : BOOLEAN]

(* Image dimensions the decoder or sharp's metadata may report; width 0   *)
(* stands for a missing metadata.width.                                    *)
Widths(v) == {cropTarget(v) + d : d \in (-1)..MaxDelta} \cup (IF v = 2 THEN {0} ELSE {})
Heights == {150, 400}
InputSizes == 0..MaxSize
OutputSizes == 1..MaxSize

(* A buffer is the region of the file's image it holds; NoRect: the bytes  *)
(* as read from the file.                                                  *)
NoRect == [left |-> -1, top |-> -1, width |-> -1, height |-> -1]
inputBuffer == NoRect
NoResize == [kind |-> "unset", width |-> -1, height |-> -1]

(* The locals of one loop iteration before anything has run. *)
freshLocals ==
    [inputSize |-> -1, outputSize |-> -1,
     originalWidth |-> -1, originalHeight |-> -1,
     processedBuffer |-> <<>>,     \* <<b>>: cropImage returned buffer b
     codecInput |-> <<>>,          \* <<b>>: buffer b went to imagePool.ingestImage
     extract |-> <<>>,             \* <<r>>: sharp's extract was called with r
     left |-> -1,                  \* the offset variant 1 computes and logs
     resize |-> NoResize,          \* preprocessOpts.resize
     quant |-> FALSE,              \* preprocessOpts.quant present
     preprocessed |-> FALSE,       \* image.preprocess was called
     done |-> {},                  \* history: the steps that completed
     threw |-> "none"]             \* history: the step that threw

initStats(n) ==
    [total |-> n, success |-> 0, failed |-> 0,
     totalInputSize |-> 0, totalOutputSize |-> 0]

initFs == [existsChecked |-> FALSE, listed |-> FALSE, rootMade |-> FALSE,
           reads |-> {}, dirs |-> {}, writes |-> {}]

pathIdle == inputPathArg = <<>> /\ customFormatArg = <<>> /\ outputPath = <<>>

(* main has not started. *)
mainStart ==
    /\ pc = "main"
    /\ exitCode = {}
    /\ imageFiles = <<>>
    /\ stats = initStats(0)
    /\ i = 0
    /\ step = "idle"
    /\ cur = freshLocals
    /\ pools = <<>>
    /\ fs = initFs
    /\ threwFiles = {}
    /\ threwEarly = {}
    /\ okIn = 0
    /\ okOut = 0
    /\ counted = <<>>
    /\ divided = {}
    /\ usedClosedPool = FALSE
    /\ escaped = "none"

Init ==
    /\ variant \in {1, 2}
    /\ CONFIG \in Configs
    /\ inputDirExists \in BOOLEAN
    /\ mainStart
    /\ pathIdle

\* ---------------------------------------------------------------- main

(* MainCheckInputDir without the exit: main goes on when the directory is  *)
(* missing.                                                                *)
MainCheckInputDirNoExit ==
    /\ pc = "main"
    /\ fs' = [fs EXCEPT !.existsChecked = TRUE]
    /\ pc' = "ensureDir"
    /\ UNCHANGED <<variant, CONFIG, inputDirExists, exitCode, imageFiles, stats,
                   i, step, cur, pools, threwFiles, threwEarly, okIn, okOut, counted,
                   divided, usedClosedPool, escaped, pathVars>>

(* main: if (!fs.existsSync(CONFIG.inputDir)) process.exit(1). *)
MainCheckInputDir ==
    /\ pc = "main"
    /\ fs' = [fs EXCEPT !.existsChecked = TRUE]
    /\ IF inputDirExists
          THEN pc' = "ensureDir" /\ exitCode' = exitCode
          ELSE pc' = "exited" /\ exitCode' = {1}
    /\ UNCHANGED <<variant, CONFIG, inputDirExists, imageFiles, stats, i, step,
                   cur, pools, threwFiles, threwEarly, okIn, okOut, counted, divided,
                   usedClosedPool, escaped, pathVars>>

(* main: ensureDir(CONFIG.outputDir); mkdirSync may throw. *)
MainEnsureOutputDir ==
    /\ pc = "ensureDir"
    /\ \/ /\ fs' = [fs EXCEPT !.rootMade = TRUE]
          /\ pc' = "getImageFiles"
          /\ escaped' = escaped
       \/ /\ fs' = fs
          /\ pc' = "rejected"
          /\ escaped' = "ensureDir"
    /\ UNCHANGED <<variant, CONFIG, inputDirExists, exitCode, imageFiles, stats,
                   i, step, cur, pools, threwFiles, threwEarly, okIn, okOut, counted,
                   divided, usedClosedPool, pathVars>>

(* main: const imageFiles = getImageFiles(CONFIG.inputDir); readdirSync   *)
(* and statSync may throw.                                                 *)
MainGetImageFiles ==
    /\ pc = "getImageFiles"
    /\ fs' = [fs EXCEPT !.listed = TRUE]
    /\ \/ /\ \E n \in 0..MaxFiles : imageFiles' = [k \in 1..n |-> k]
          /\ pc' = "checkEmpty"
          /\ escaped' = escaped
       \/ /\ imageFiles' = imageFiles
          /\ pc' = "rejected"
          /\ escaped' = "getImageFiles"
    /\ UNCHANGED <<variant, CONFIG, inputDirExists, exitCode, stats, i, step,
                   cur, pools, threwFiles, threwEarly, okIn, okOut, counted, divided,
                   usedClosedPool, pathVars>>

(* MainNoImages exiting with code 1. *)
MainNoImagesExit1 ==
    /\ pc = "checkEmpty"
    /\ Len(imageFiles) = 0
    /\ pc' = "exited"
    /\ exitCode' = {1}
    /\ UNCHANGED <<variant, CONFIG, inputDirExists, imageFiles, stats, i, step,
                   cur, pools, fs, threwFiles, threwEarly, okIn, okOut, counted, divided,
                   usedClosedPool, escaped, pathVars>>

(* main: if (imageFiles.length === 0) process.exit(0). *)
MainNoImages ==
    /\ pc = "checkEmpty"
    /\ Len(imageFiles) = 0
    /\ pc' = "exited"
    /\ exitCode' = {0}
    /\ UNCHANGED <<variant, CONFIG, inputDirExists, imageFiles, stats, i, step,
                   cur, pools, fs, threwFiles, threwEarly, okIn, okOut, counted, divided,
                   usedClosedPool, escaped, pathVars>>

(* main: const stats = await compressImages(imageFiles), up to the loop.  *)
(* Variant 2 creates its one pool before the loop.                         *)
MainCallCompressImages ==
    /\ pc = "checkEmpty"
    /\ Len(imageFiles) # 0
    /\ pc' = "compressImages"
    /\ stats' = initStats(Len(imageFiles))
    /\ counted' = [k \in 1..Len(imageFiles) |-> [success |-> 0, failed |-> 0]]
    /\ i' = 0
    /\ step' = IF variant = 1 THEN "loop" ELSE "newPool"
    /\ UNCHANGED <<variant, CONFIG, inputDirExists, exitCode, imageFiles, cur,
                   pools, fs, threwFiles, threwEarly, okIn, okOut, divided, usedClosedPool,
                   escaped, pathVars>>

(* main: if (stats.totalInputSize > 0) { totalReduction = ... }. *)
totalReductionGuard(s) == s.totalInputSize > 0

(* main after compressImages: the summary, then main returns and the      *)
(* process ends with code 0.                                               *)
MainSummary ==
    /\ pc = "summary"
    /\ divided' = IF totalReductionGuard(stats) /\ stats.totalInputSize = 0
                     THEN divided \cup {"total"}
                     ELSE divided
    /\ pc' = "exited"
    /\ exitCode' = {0}
    /\ UNCHANGED <<variant, CONFIG, inputDirExists, imageFiles, stats, i, step,
                   cur, pools, fs, threwFiles, threwEarly, okIn, okOut, counted,
                   usedClosedPool, escaped, pathVars>>

(* main().catch(error => { ...; process.exit(1) }). *)
MainCatch ==
    /\ pc = "rejected"
    /\ pc' = "exited"
    /\ exitCode' = {1}
    /\ UNCHANGED <<variant, CONFIG, inputDirExists, imageFiles, stats, i, step,
                   cur, pools, fs, threwFiles, threwEarly, okIn, okOut, counted, divided,
                   usedClosedPool, escaped, pathVars>>

\* ------------------------------------------------------- compressImages

inBatch == pc = "compressImages"
file == i + 1
poolOpen == pools # <<>> /\ pools[Len(pools)] = 0

(* The steps of the try block before ensureDir and writeFileSync. *)
preWriteSteps == {"read", "crop", "decode", "preprocess", "encode"}

(* A step of the try block throws: control goes to the catch clause, and  *)
(* the block's const and let bindings are gone.                            *)
Throw(kind) ==
    /\ cur' = [freshLocals EXCEPT !.threw = kind]
    /\ threwFiles' = threwFiles \cup {file}
    /\ threwEarly' = IF kind \in preWriteSteps THEN threwEarly \cup {file} ELSE threwEarly
    /\ step' = "catch"

(* LoopTest with variant 2 returning without closing its pool. *)
LoopTestNoClose ==
    /\ inBatch
    /\ step = "loop"
    /\ cur' = freshLocals
    /\ IF i < Len(imageFiles)
          THEN step' = IF variant = 1 THEN "newPool" ELSE "read"
          ELSE step' = "return"
    /\ UNCHANGED <<variant, CONFIG, inputDirExists, pc, exitCode, imageFiles,
                   stats, i, pools, fs, threwFiles, threwEarly, okIn, okOut, counted,
                   divided, usedClosedPool, escaped, pathVars>>

(* for (let i = 0; i < imageFiles.length; i++): the loop test. *)
LoopTest ==
    /\ inBatch
    /\ step = "loop"
    /\ cur' = freshLocals
    /\ IF i < Len(imageFiles)
          THEN step' = IF variant = 1 THEN "newPool" ELSE "read"
          ELSE step' = IF variant = 1 THEN "return" ELSE "close"
    /\ UNCHANGED <<variant, CONFIG, inputDirExists, pc, exitCode, imageFiles,
                   stats, i, pools, fs, threwFiles, threwEarly, okIn, okOut, counted,
                   divided, usedClosedPool, escaped, pathVars>>

(* const imagePool = new ImagePool(CONFIG.maxConcurrent). *)
NewImagePool ==
    /\ inBatch
    /\ step = "newPool"
    /\ pools' = Append(pools, 0)
    /\ step' = IF variant = 1 THEN "read" ELSE "loop"
    /\ UNCHANGED <<variant, CONFIG, inputDirExists, pc, exitCode, imageFiles,
                   stats, i, cur, fs, threwFiles, threwEarly, okIn, okOut, counted,
                   divided, usedClosedPool, escaped, pathVars>>

(* ReadFileSync with the output directory created as soon as the file is  *)
(* read.                                                                   *)
ReadFileSyncMakingDir ==
    /\ inBatch
    /\ step = "read"
    /\ \/ /\ Throw("read")
          /\ UNCHANGED <<stats, fs>>
       \/ \E size \in InputSizes :
             /\ cur' = [cur EXCEPT !.inputSize = size, !.done = @ \cup {"read"}]
             /\ stats' = [stats EXCEPT !.totalInputSize = @ + size]
             /\ fs' = [fs EXCEPT !.reads = @ \cup {file}, !.dirs = @ \cup {file}]
             /\ step' = IF variant = 1 THEN "ingest" ELSE "crop"
             /\ UNCHANGED <<threwFiles, threwEarly>>
    /\ UNCHANGED <<variant, CONFIG, inputDirExists, pc, exitCode, imageFiles,
                   i, pools, okIn, okOut, counted, divided, usedClosedPool,
                   escaped, pathVars>>

(* const inputBuffer = fs.readFileSync(inputPath);                         *)
(* stats.totalInputSize += inputBuffer.length.                             *)
ReadFileSync ==
    /\ inBatch
    /\ step = "read"
    /\ \/ /\ Throw("read")
          /\ UNCHANGED <<stats, fs>>
       \/ \E size \in InputSizes :
             /\ cur' = [cur EXCEPT !.inputSize = size, !.done = @ \cup {"read"}]
             /\ stats' = [stats EXCEPT !.totalInputSize = @ + size]
             /\ fs' = [fs EXCEPT !.reads = @ \cup {file}]
             /\ step' = IF variant = 1 THEN "ingest" ELSE "crop"
             /\ UNCHANGED <<threwFiles, threwEarly>>
    /\ UNCHANGED <<variant, CONFIG, inputDirExists, pc, exitCode, imageFiles,
                   i, pools, okIn, okOut, counted, divided, usedClosedPool,
                   escaped, pathVars>>

(* cropImage (variant 2), given sharp's metadata: the buffer it returns    *)
(* and the rectangle it extracts, if any.                                  *)
cropImage(width, height) ==
    IF width = 0 \/ width <= cropWidthSharp
       THEN [buffer |-> inputBuffer, extract |-> <<>>]
       ELSE LET xOffset == (width - cropWidthSharp) \div 2
                rect == [left |-> xOffset, top |-> 0,
                         width |-> cropWidthSharp, height |-> height]
            IN  [buffer |-> rect, extract |-> <<rect>>]

(* Variant 2: let processedBuffer = inputBuffer;                           *)
(* if (CONFIG.crop.enabled) processedBuffer = await cropImage(inputBuffer).*)
(* sharp's metadata, extract and toBuffer may throw.                       *)
CropImage ==
    /\ inBatch
    /\ step = "crop"
    /\ \/ /\ ~CONFIG.cropEnabled
          /\ cur' = [cur EXCEPT !.processedBuffer = <<inputBuffer>>]
          /\ step' = "ingest"
          /\ UNCHANGED <<threwFiles, threwEarly>>
       \/ /\ CONFIG.cropEnabled
          /\ \E w \in Widths(variant), h \in Heights :
                LET r == cropImage(w, h)
                IN  cur' = [cur EXCEPT !.originalWidth = w,
                                       !.originalHeight = h,
                                       !.processedBuffer = <<r.buffer>>,
                                       !.extract = r.extract,
                                       !.done = @ \cup {"crop"}]
          /\ step' = "ingest"
          /\ UNCHANGED <<threwFiles, threwEarly>>
       \/ /\ CONFIG.cropEnabled
          /\ Throw("crop")
    /\ UNCHANGED <<variant, CONFIG, inputDirExists, pc, exitCode, imageFiles,
                   stats, i, pools, fs, okIn, okOut, counted, divided,
                   usedClosedPool, escaped, pathVars>>

(* const image = imagePool.ingestImage(buffer): inputBuffer in variant 1,  *)
(* processedBuffer in variant 2.                                           *)
IngestImage ==
    /\ inBatch
    /\ step = "ingest"
    /\ cur' = [cur EXCEPT !.codecInput =
                  IF variant = 1 THEN <<inputBuffer>> ELSE cur.processedBuffer]
    /\ usedClosedPool' = (usedClosedPool \/ ~poolOpen)
    /\ step' = IF variant = 1 THEN "decoded" ELSE "preprocess"
    /\ UNCHANGED <<variant, CONFIG, inputDirExists, pc, exitCode, imageFiles,
                   stats, i, pools, fs, threwFiles, threwEarly, okIn, okOut, counted,
                   divided, escaped, pathVars>>

(* Variant 1: await image.decoded; originalWidth = image.bitmap.width;     *)
(* originalHeight = image.bitmap.height.  Decoding may fail.               *)
AwaitDecoded ==
    /\ inBatch
    /\ step = "decoded"
    /\ \/ Throw("decode")
       \/ /\ \E w \in Widths(variant), h \in Heights :
                cur' = [cur EXCEPT !.originalWidth = w, !.originalHeight = h,
                                   !.done = @ \cup {"decode"}]
          /\ step' = "preprocess"
          /\ UNCHANGED <<threwFiles, threwEarly>>
    /\ UNCHANGED <<variant, CONFIG, inputDirExists, pc, exitCode, imageFiles,
                   stats, i, pools, fs, okIn, okOut, counted, divided,
                   usedClosedPool, escaped, pathVars>>

(* Variant 1, lines 187-207: the "crop" branch sets preprocessOpts.resize  *)
(* to a stretch to cropWidth x cropHeight and only logs left.              *)
resizeOpts1(c, width, height) ==
    IF c.cropEnabled /\ width > cropOptionsWidth
       THEN [kind |-> "stretch", width |-> cropOptionsWidth,
             height |-> IF keepHeight THEN height ELSE resizeHeight]
       ELSE IF c.resizeEnabled
               THEN [kind |-> "config", width |-> resizeWidth, height |-> resizeHeight]
               ELSE NoResize

loggedLeft1(c, width) ==
    IF c.cropEnabled /\ width > cropOptionsWidth
       THEN (width - cropOptionsWidth) \div 2
       ELSE -1

(* Variant 2, lines 515-518. *)
resizeOpts2(c) ==
    IF c.resizeEnabled
       THEN [kind |-> "config", width |-> resizeWidth, height |-> resizeHeight]
       ELSE NoResize

(* Build preprocessOpts; if (Object.keys(preprocessOpts).length > 0)       *)
(* await image.preprocess(preprocessOpts), which may fail.                 *)
Preprocess ==
    /\ inBatch
    /\ step = "preprocess"
    /\ LET resize == IF variant = 1
                        THEN resizeOpts1(CONFIG, cur.originalWidth, cur.originalHeight)
                        ELSE resizeOpts2(CONFIG)
           left == IF variant = 1 THEN loggedLeft1(CONFIG, cur.originalWidth) ELSE -1
           quant == CONFIG.quantEnabled
           nonEmpty == resize # NoResize \/ quant
       IN  \/ /\ nonEmpty
              /\ Throw("preprocess")
           \/ /\ cur' = [cur EXCEPT !.resize = resize, !.quant = quant,
                                    !.left = left, !.preprocessed = nonEmpty,
                                    !.done = @ \cup {"preprocess"}]
              /\ step' = "encode"
              /\ UNCHANGED <<threwFiles, threwEarly>>
    /\ UNCHANGED <<variant, CONFIG, inputDirExists, pc, exitCode, imageFiles,
                   stats, i, pools, fs, okIn, okOut, counted, divided,
                   usedClosedPool, escaped, pathVars>>

(* await image.encode(...); outputBuffer = (await image.encodedWith[       *)
(* encoder]).binary; stats.totalOutputSize += outputBuffer.length.         *)
Encode ==
    /\ inBatch
    /\ step = "encode"
    /\ usedClosedPool' = (usedClosedPool \/ ~poolOpen)
    /\ \/ /\ Throw("encode")
          /\ stats' = stats
       \/ \E size \in OutputSizes :
             /\ cur' = [cur EXCEPT !.outputSize = size, !.done = @ \cup {"encode"}]
             /\ stats' = [stats EXCEPT !.totalOutputSize = @ + size]
             /\ step' = "ensureDir"
             /\ UNCHANGED <<threwFiles, threwEarly>>
    /\ UNCHANGED <<variant, CONFIG, inputDirExists, pc, exitCode, imageFiles,
                   i, pools, fs, okIn, okOut, counted, divided, escaped,
                   pathVars>>

(* ensureDir(path.dirname(outputPath)); mkdirSync may throw. *)
EnsureDir ==
    /\ inBatch
    /\ step = "ensureDir"
    /\ \/ /\ Throw("ensureDir")
          /\ fs' = fs
       \/ /\ fs' = [fs EXCEPT !.dirs = @ \cup {file}]
          /\ cur' = [cur EXCEPT !.done = @ \cup {"ensureDir"}]
          /\ step' = "write"
          /\ UNCHANGED <<threwFiles, threwEarly>>
    /\ UNCHANGED <<variant, CONFIG, inputDirExists, pc, exitCode, imageFiles,
                   stats, i, pools, okIn, okOut, counted, divided,
                   usedClosedPool, escaped, pathVars>>

(* fs.writeFileSync(outputPath, outputBuffer); may throw. *)
WriteFileSync ==
    /\ inBatch
    /\ step = "write"
    /\ \/ /\ Throw("write")
          /\ UNCHANGED <<fs, okIn, okOut>>
       \/ /\ fs' = [fs EXCEPT !.writes = @ \cup {file}]
          /\ cur' = [cur EXCEPT !.done = @ \cup {"write"}]
          /\ okIn' = okIn + cur.inputSize
          /\ okOut' = okOut + cur.outputSize
          /\ step' = "success"
          /\ UNCHANGED <<threwFiles, threwEarly>>
    /\ UNCHANGED <<variant, CONFIG, inputDirExists, pc, exitCode, imageFiles,
                   stats, i, pools, counted, divided, usedClosedPool, escaped,
                   pathVars>>

(* After the try statement of variant 2, or the finally of variant 1. *)
NextFile == i' = i + 1 /\ step' = "loop"

(* const reduction = ((1 - outputSize / inputSize) * 100).toFixed(2);      *)
(* the two log lines; stats.success++.  The try block is done and its      *)
(* bindings are gone.                                                      *)
Success ==
    /\ inBatch
    /\ step = "success"
    /\ divided' = IF cur.inputSize = 0 THEN divided \cup {"file"} ELSE divided
    /\ stats' = [stats EXCEPT !.success = @ + 1]
    /\ counted' = [counted EXCEPT ![file].success = @ + 1]
    /\ cur' = freshLocals
    /\ IF variant = 1 THEN step' = "finally" /\ i' = i ELSE NextFile
    /\ UNCHANGED <<variant, CONFIG, inputDirExists, pc, exitCode, imageFiles,
                   pools, fs, threwFiles, threwEarly, okIn, okOut, usedClosedPool,
                   escaped, pathVars>>

(* Catch leaving the loop after the first failure. *)
CatchBreak ==
    /\ inBatch
    /\ step = "catch"
    /\ stats' = [stats EXCEPT !.failed = @ + 1]
    /\ counted' = [counted EXCEPT ![file].failed = @ + 1]
    /\ IF variant = 1
          THEN step' = "finally" /\ i' = Len(imageFiles) - 1
          ELSE step' = "loop" /\ i' = Len(imageFiles)
    /\ UNCHANGED <<variant, CONFIG, inputDirExists, pc, exitCode, imageFiles,
                   cur, pools, fs, threwFiles, threwEarly, okIn, okOut, divided,
                   usedClosedPool, escaped, pathVars>>

(* Catch counting the file as a success too. *)
CatchCountsBoth ==
    /\ inBatch
    /\ step = "catch"
    /\ stats' = [stats EXCEPT !.failed = @ + 1, !.success = @ + 1]
    /\ counted' = [counted EXCEPT ![file].failed = @ + 1, ![file].success = @ + 1]
    /\ IF variant = 1 THEN step' = "finally" /\ i' = i ELSE NextFile
    /\ UNCHANGED <<variant, CONFIG, inputDirExists, pc, exitCode, imageFiles,
                   cur, pools, fs, threwFiles, threwEarly, okIn, okOut, divided,
                   usedClosedPool, escaped, pathVars>>

(* catch (error) { console.error(...); stats.failed++; }. *)
Catch ==
    /\ inBatch
    /\ step = "catch"
    /\ stats' = [stats EXCEPT !.failed = @ + 1]
    /\ counted' = [counted EXCEPT ![file].failed = @ + 1]
    /\ IF variant = 1 THEN step' = "finally" /\ i' = i ELSE NextFile
    /\ UNCHANGED <<variant, CONFIG, inputDirExists, pc, exitCode, imageFiles,
                   cur, pools, fs, threwFiles, threwEarly, okIn, okOut, divided,
                   usedClosedPool, escaped, pathVars>>

(* await imagePool.close(): in the finally clause of variant 1, after the  *)
(* loop in variant 2.  A rejection leaves compressImages and main.         *)
PoolClose ==
    /\ inBatch
    /\ step = IF variant = 1 THEN "finally" ELSE "close"
    /\ pools' = [pools EXCEPT ![Len(pools)] = @ + 1]
    /\ \/ /\ IF variant = 1 THEN NextFile ELSE step' = "return" /\ i' = i
          /\ UNCHANGED <<pc, escaped>>
       \/ /\ pc' = "rejected"
          /\ escaped' = "close"
          /\ step' = "idle"
          /\ i' = i
    /\ UNCHANGED <<variant, CONFIG, inputDirExists, exitCode, imageFiles, stats,
                   cur, fs, threwFiles, threwEarly, okIn, okOut, counted, divided,
                   usedClosedPool, pathVars>>

(* return stats. *)
Return ==
    /\ inBatch
    /\ step = "return"
    /\ pc' = "summary"
    /\ step' = "idle"
    /\ UNCHANGED <<variant, CONFIG, inputDirExists, exitCode, imageFiles, stats,
                   i, cur, pools, fs, threwFiles, threwEarly, okIn, okOut, counted,
                   divided, usedClosedPool, escaped, pathVars>>

Next ==
    \/ MainCheckInputDir
    \/ MainEnsureOutputDir
    \/ MainGetImageFiles
    \/ MainNoImages
    \/ MainCallCompressImages
    \/ MainSummary
    \/ MainCatch
    \/ LoopTest
    \/ NewImagePool
    \/ ReadFileSync
    \/ CropImage
    \/ IngestImage
    \/ AwaitDecoded
    \/ Preprocess
    \/ Encode
    \/ EnsureDir
    \/ WriteFileSync
    \/ Success
    \/ Catch
    \/ PoolClose
    \/ Return

Spec == Init /\ [][Next]_vars

\* -------------------------------------------------------- getOutputPath
(* A string is the sequence of its characters.  A file name is made of    *)
(* letters and dots; "/" separates the segments of a path.                 *)

inputDir == <<".", "/", "j", "u", "m", "p">>
outputDir == <<".", "/", "j", "u", "m", "p", "C", "o", "m", "p", "r", "e", "s", "s">>

Last(s) == s[Len(s)]
Front(s) == SubSeq(s, 1, Len(s) - 1)

(* The segments of a path: the pieces between its "/". *)
RECURSIVE split(_)
split(s) ==
    IF s = <<>>
       THEN << <<>> >>
       ELSE LET rest == split(Tail(s))
            IN  IF Head(s) = "/"
                   THEN << <<>> >> \o rest
                   ELSE << <<Head(s)>> \o Head(rest) >> \o Tail(rest)

(* The segments joined by "/". *)
RECURSIVE joinSegments(_)
joinSegments(segs) ==
    IF segs = <<>>
       THEN <<>>
       ELSE IF Len(segs) = 1
               THEN Head(segs)
               ELSE Head(segs) \o <<"/">> \o joinSegments(Tail(segs))

(* path.normalize on the segments of a relative path: empty and "."       *)
(* segments go, ".." takes back the segment before it.                     *)
RECURSIVE normalizeSegments(_, _)
normalizeSegments(segs, acc) ==
    IF segs = <<>>
       THEN acc
       ELSE LET h == Head(segs)
            IN  IF h = <<>> \/ h = <<".">>
                   THEN normalizeSegments(Tail(segs), acc)
                   ELSE IF h = <<".", ".">> /\ acc # <<>> /\ Last(acc) # <<".", ".">>
                           THEN normalizeSegments(Tail(segs), Front(acc))
                           ELSE normalizeSegments(Tail(segs), Append(acc, h))

(* path.join: the non-empty arguments joined by "/", then normalized;     *)
(* "." when nothing is left.                                               *)
pathJoin(parts) ==
    LET joined == joinSegments(SelectSeq(parts, LAMBDA x : x # <<>>))
        norm == joinSegments(normalizeSegments(split(joined), <<>>))
    IN  IF norm = <<>> THEN <<".">> ELSE norm

(* The length of the longest common prefix of two sequences. *)
RECURSIVE commonPrefix(_, _)
commonPrefix(a, b) ==
    IF a = <<>> \/ b = <<>> \/ Head(a) # Head(b)
       THEN 0
       ELSE 1 + commonPrefix(Tail(a), Tail(b))

(* path.relative(from, to) for two paths relative to the same working     *)
(* directory: ".." for each segment of from past the common prefix, then   *)
(* the rest of to.                                                         *)
pathRelative(from, to) ==
    LET f == normalizeSegments(split(from), <<>>)
        t == normalizeSegments(split(to), <<>>)
        c == commonPrefix(f, t)
        ups == [k \in 1..(Len(f) - c) |-> <<".", ".">>]
    IN  joinSegments(ups \o SubSeq(t, c + 1, Len(t)))

(* The index of the last "." of a name, 0 if it has none. *)
lastDot(base) ==
    LET dots == {k \in 1..Len(base) : base[k] = "."}
    IN  IF dots = {} THEN 0 ELSE CHOOSE k \in dots : \A j \in dots : j <= k

(* path.extname of a base name: from its last "." on; empty when it has   *)
(* no ".", when its only "." is the first character, and for "..".         *)
pathExtname(base) ==
    IF lastDot(base) <= 1 \/ base = <<".", ".">>
       THEN <<>>
       ELSE SubSeq(base, lastDot(base), Len(base))

(* path.parse of a relative path: dir, base, ext and name. *)
pathParse(p) ==
    LET segs == split(p)
        base == Last(segs)
        ext == pathExtname(base)
    IN  [dir |-> joinSegments(Front(segs)),
         base |-> base,
         ext |-> ext,
         name |-> SubSeq(base, 1, Len(base) - Len(ext))]

(* getOutputPath with parsed.dir left out of the join. *)
getOutputPathFlat(inputPath, customFormat) ==
    LET relativePath == pathRelative(inputDir, inputPath)
        parsed == pathParse(relativePath)
        base == IF customFormat # <<>>
                   THEN parsed.name \o customFormat
                   ELSE parsed.base
    IN  pathJoin(<<outputDir, base>>)

(* getOutputPath(inputPath, customFormat). *)
getOutputPath(inputPath, customFormat) ==
    LET relativePath == pathRelative(inputDir, inputPath)
        parsed == pathParse(relativePath)
        base == IF customFormat # <<>>
                   THEN parsed.name \o customFormat
                   ELSE parsed.base
    IN  pathJoin(<<outputDir, parsed.dir, base>>)

(* The file names, directory names and formats the paths are drawn from. *)
NameChars == {"a", "b", "."}
RECURSIVE strings(_)
strings(n) ==
    IF n = 0
       THEN {<<>>}
       ELSE LET shorter == strings(n - 1)
            IN  shorter \cup {Append(s, c) : s \in shorter, c \in NameChars}
FileNames == strings(MaxNameLen) \ {<<>>, <<".">>, <<".", ".">>}
DirNames == {<<"d">>, <<"e", ".", "f">>}
RECURSIVE dirLists(_)
dirLists(n) ==
    IF n = 0
       THEN {<<>>}
       ELSE LET shorter == dirLists(n - 1)
            IN  shorter \cup {Append(s, d) : s \in shorter, d \in DirNames}
Formats == {<<>>, <<".", "w", "e", "b", "p">>, <<".", "a">>}

(* The path getImageFiles builds for a file: path.join(currentPath, item) *)
(* from CONFIG.inputDir down.                                              *)
RECURSIVE fullPath(_, _)
fullPath(currentPath, items) ==
    IF items = <<>>
       THEN currentPath
       ELSE fullPath(pathJoin(<<currentPath, Head(items)>>), Tail(items))

PathInit ==
    /\ variant = 1
    /\ CONFIG = [cropEnabled |-> TRUE, resizeEnabled |-> TRUE, quantEnabled |-> TRUE]
    /\ inputDirExists = TRUE
    /\ mainStart
    /\ \E dirs \in dirLists(MaxDepth), name \in FileNames :
          inputPathArg = fullPath(inputDir, Append(dirs, name))
    /\ customFormatArg \in Formats
    /\ outputPath = <<>>

(* const outputPath = getOutputPath(inputPath, CONFIG.outputFormat). *)
CallGetOutputPath ==
    /\ outputPath = <<>>
    /\ outputPath' = getOutputPath(inputPathArg, customFormatArg)
    /\ UNCHANGED <<mainVars, inputPathArg, customFormatArg>>

PathNext == CallGetOutputPath

PathSpec == PathInit /\ [][PathNext]_vars

\* ------------------------------------------------------------ properties

N == Len(imageFiles)
returned == pc = "summary"
allFiles == 1..N

(* C1: when exactly one file fails, at whatever step, compressImages      *)
(* returns success = N - 1 and failed = 1, and an output file was written  *)
(* for every other file, those after the failing one included.            *)
C1_BatchFailureIsolation ==
    (returned /\ Cardinality(threwFiles) = 1) =>
        /\ stats.success = N - 1
        /\ stats.failed = 1
        /\ fs.writes = allFiles \ threwFiles

(* The first of several files failed and the batch returned. *)
C1_Witness ==
    /\ returned
    /\ N >= 2
    /\ threwFiles = {1}
    /\ fs.writes = 2..N

(* C2: on return totalInputSize and totalOutputSize are the sums of the   *)
(* input and output sizes of exactly the successfully processed files.    *)
C2_ByteAccounting ==
    returned =>
        /\ stats.totalInputSize = okIn
        /\ stats.totalOutputSize = okOut

(* The rectangle the claim names for an image W x H and target T. *)
centeredRect(W, H, T) ==
    [left |-> (W - T) \div 2, top |-> 0, width |-> T, height |-> H]

(* C3: with cropping enabled, once the image of known width W is with the *)
(* codec and preprocessed: if W <= T no rectangle was computed and the     *)
(* codec holds the original bytes; if W > T the crop capability was        *)
(* invoked with left = floor((W - T) / 2), top = 0, width = T, height = H  *)
(* and the codec holds that region.                                        *)
C3_CenteredCrop ==
    (/\ inBatch
     /\ CONFIG.cropEnabled
     /\ cur.codecInput # <<>>
     /\ cur.originalWidth # -1
     /\ "preprocess" \in cur.done) =>
        LET W == cur.originalWidth
            H == cur.originalHeight
            T == cropTarget(variant)
        IN  IF W <= T
               THEN /\ cur.extract = <<>>
                    /\ cur.left = -1
                    /\ cur.codecInput = <<inputBuffer>>
               ELSE /\ cur.extract = <<centeredRect(W, H, T)>>
                    /\ cur.codecInput = <<centeredRect(W, H, T)>>

(* C4: when the input directory does not exist, nothing is listed,        *)
(* created, read or written and no pool is made, main never gets past its  *)
(* check, and the process ends with code 1.                                *)
C4_MissingInputRootFatal ==
    ~inputDirExists =>
        /\ ~fs.listed
        /\ ~fs.rootMade
        /\ fs.reads = {} /\ fs.dirs = {} /\ fs.writes = {}
        /\ pools = <<>>
        /\ pc \in {"main", "exited"}
        /\ pc = "exited" => exitCode = {1}

C4_Witness ==
    /\ ~inputDirExists
    /\ pc = "exited"
    /\ exitCode = {1}

isPrefix(a, b) == Len(a) <= Len(b) /\ SubSeq(b, 1, Len(a)) = a
dropFirst(s, n) == SubSeq(s, n + 1, Len(s))
(* The index of the last "/" of a string, 0 if it has none. *)
lastSlash(s) ==
    LET at == {k \in 1..Len(s) : s[k] = "/"}
    IN  IF at = {} THEN 0 ELSE CHOOSE k \in at : \A j \in at : j <= k
dirPart(s) == SubSeq(s, 1, lastSlash(s))
basePart(s) == dropFirst(s, lastSlash(s))
stemPart(s) == SubSeq(basePart(s), 1, Len(basePart(s)) - Len(pathExtname(basePart(s))))
inputRoot == <<"j", "u", "m", "p", "/">>
outputRoot == <<"j", "u", "m", "p", "C", "o", "m", "p", "r", "e", "s", "s", "/">>

(* C5: the output path lies below the output root, and what follows the   *)
(* root is what follows the input root in the input path; with a format    *)
(* given, the directories and the name are kept, only the last extension   *)
(* is replaced, and the result's extension is the format.                  *)
C5_PathMirroring ==
    outputPath # <<>> =>
        LET relIn == dropFirst(inputPathArg, Len(inputRoot))
            relOut == dropFirst(outputPath, Len(outputRoot))
        IN  /\ isPrefix(inputRoot, inputPathArg)
            /\ isPrefix(outputRoot, outputPath)
            /\ relOut # <<>>
            /\ IF customFormatArg = <<>>
                  THEN relOut = relIn
                  ELSE /\ dirPart(relOut) = dirPart(relIn)
                       /\ stemPart(relOut) = stemPart(relIn)
                       /\ pathExtname(basePart(relOut)) = customFormatArg
                       /\ basePart(relOut) = stemPart(relIn) \o customFormatArg

(* A file two directories deep, one of them with a dot in its name, had   *)
(* its extension replaced.                                                 *)
C5_Witness ==
    /\ outputPath # <<>>
    /\ customFormatArg = <<".", "w", "e", "b", "p">>
    /\ inputPathArg = <<"j", "u", "m", "p", "/", "d", "/", "e", ".", "f", "/", "a", ".", "b">>
    /\ outputPath = <<"j", "u", "m", "p", "C", "o", "m", "p", "r", "e", "s", "s", "/",
                      "d", "/", "e", ".", "f", "/", "a", ".", "w", "e", "b", "p">>

(* C6: the process ends with code 1 exactly when the input directory is   *)
(* missing or an error left main, and with code 0 otherwise, however many  *)
(* files failed; with no image found nothing is read, written or created   *)
(* below the output root and no pool is made.                              *)
C6_ExitCodes ==
    /\ pc # "exited" => exitCode = {}
    /\ pc = "exited" =>
          /\ exitCode \in {{0}, {1}}
          /\ exitCode = {1} <=> (~inputDirExists \/ escaped # "none")
          /\ (fs.listed /\ escaped = "none" /\ N = 0) =>
                /\ exitCode = {0}
                /\ fs.reads = {} /\ fs.dirs = {} /\ fs.writes = {}
                /\ pools = <<>>

(* Every file failed and the process still ended with code 0. *)
C6_Witness ==
    /\ pc = "exited"
    /\ exitCode = {0}
    /\ N = MaxFiles
    /\ stats.failed = N

(* C7: no pool is closed more than once, nothing is ingested into or      *)
(* encoded by a closed pool, variant 1 has one pool per file started and   *)
(* variant 2 one per batch, and when compressImages returns every pool     *)
(* has been closed exactly once.                                           *)
C7_PoolLifecycle ==
    /\ \A p \in 1..Len(pools) : pools[p] <= 1
    /\ \A p \in 1..(Len(pools) - 1) : pools[p] = 1
    /\ ~usedClosedPool
    /\ variant = 2 => Len(pools) <= 1
    /\ (variant = 1 /\ inBatch) => Len(pools) \in {i, i + 1}
    /\ returned =>
          /\ pools # <<>>
          /\ \A p \in 1..Len(pools) : pools[p] = 1

(* compressImages returned after some file failed and some succeeded. *)
C7_Witness ==
    /\ returned
    /\ threwFiles # {}
    /\ stats.success > 0
    /\ \A p \in 1..Len(pools) : pools[p] = 1

(* C8: the output directory is ensured and the file written only after    *)
(* read, crop, decode, preprocess and encode all completed for that file;  *)
(* a file that failed in one of those has no directory and no output; and  *)
(* successes never exceed the output files written.                        *)
C8_NoPartialWrites ==
    /\ (inBatch /\ cur.done \cap {"ensureDir", "write"} # {}) =>
          /\ {"read", "preprocess", "encode"} \subseteq cur.done
          /\ variant = 1 => "decode" \in cur.done
          /\ (variant = 2 /\ CONFIG.cropEnabled) => "crop" \in cur.done
          /\ cur.threw \notin preWriteSteps
    /\ threwEarly \cap (fs.dirs \cup fs.writes) = {}
    /\ threwFiles \cap fs.writes = {}
    /\ fs.writes \subseteq fs.dirs
    /\ fs.dirs \subseteq fs.reads
    /\ stats.success <= Cardinality(fs.writes)

(* A file failed before the write, another was written and counted. *)
C8_Witness ==
    /\ inBatch
    /\ step = "catch"
    /\ cur.threw = "encode"
    /\ stats.success = 1
    /\ fs.writes = {1}
    /\ file = 2

(* C9: the per-file reduction is never evaluated with inputSize = 0, and  *)
(* the total reduction never with totalInputSize = 0.                      *)
C9_NoDivisionByZeroSize ==
    divided = {}

zeroStats == initStats(N)

(* The position in the loop body, counted down to the next loop test. *)
stepRank ==
    CASE step = "newPool" -> IF variant = 1 THEN 12 ELSE 14
      [] step = "loop" -> 13
      [] step = "read" -> 11
      [] step = "crop" -> 10
      [] step = "ingest" -> 9
      [] step = "decoded" -> 8
      [] step = "preprocess" -> 7
      [] step = "encode" -> 6
      [] step = "ensureDir" -> 5
      [] step = "write" -> 4
      [] step = "success" -> 3
      [] step = "catch" -> 2
      [] step = "finally" -> 1
      [] step = "close" -> 1
      [] OTHER -> 0

loopRank == (N - i) * 14 + stepRank

statsLeq(a, b) ==
    /\ a.success <= b.success
    /\ a.failed <= b.failed
    /\ a.totalInputSize <= b.totalInputSize
    /\ a.totalOutputSize <= b.totalOutputSize
    /\ a.total <= b.total

C10_Inv ==
    /\ pc \in {"compressImages", "summary"} =>
          /\ stats.total = N
          /\ i <= N
          /\ \A f \in allFiles :
                /\ counted[f].success + counted[f].failed <= 1
                /\ f <= i => counted[f].success + counted[f].failed = 1
                /\ f > i + 1 => counted[f].success + counted[f].failed = 0
          /\ stats.success = Cardinality({f \in allFiles : counted[f].success = 1})
          /\ stats.failed = Cardinality({f \in allFiles : counted[f].failed = 1})
          /\ step = "loop" => stats.success + stats.failed = i
          /\ stats.success + stats.failed \in {i, i + 1}
    /\ (inBatch /\ i = 0 /\ step \in {"loop", "newPool"}) => stats = zeroStats
    /\ returned => stats.success + stats.failed = stats.total
    /\ pc = "exited" \/ ENABLED Next

(* C10: stats starts at zero with total = the number of files; no counter *)
(* ever decreases; after the i-th file success + failed = i, each file     *)
(* counted once, as a success or a failure and never both; every step of   *)
(* the loop brings it nearer its end; on return success + failed = total.  *)
C10_StatsProgress ==
    /\ []C10_Inv
    /\ [][/\ statsLeq(stats, stats')
          /\ (inBatch /\ inBatch') => loopRank' < loopRank]_vars

(* The batch returned with every file counted, one a failure. *)
C10_Witness ==
    /\ returned
    /\ N = MaxFiles
    /\ stats.failed = 1
    /\ stats.success = N - 1

====
